---- MODULE Spec2Model ----
(***************************************************************************)
(* A model of the strided array (ND::NDArray), its elementwise operators   *)
(* and the two geometry algorithms built on it (Geometry::computeConvexHull *)
(* and Geometry::minAreaRectangle).                                        *)
(*                                                                         *)
(* Element values are integers.  Every value the geometry code computes in *)
(* double from integer coordinates is kept exactly, as a numerator over a  *)
(* stated denominator, so that comparisons are the comparisons of the real *)
(* numbers the doubles stand for.                                          *)
(*                                                                         *)
(* A buffer carries its element type T: "double", "int" or "unsigned"      *)
(* (32 bits).  An unsigned value is held as its residue of least magnitude *)
(* modulo 2^32, so -1 stands for 2^32 - 1; sums, differences and products  *)
(* of residues are the residues of the unsigned results.                   *)
(***************************************************************************)
EXTENDS Integers, Sequences, FiniteSets, TLC

\* Bounds of the model.
MaxCoord == 1        \* point coordinates are drawn from 0..MaxCoord
MaxPts == 3          \* point arrays have 0..MaxPts rows
MaxLen == 2          \* operands of the array operators have 0..MaxLen elements
MaxBufs == 2         \* the handle driver allocates at most MaxBufs buffers
MaxDim == 2          \* the factory driver draws each extent of a shape from 0..MaxDim

VARIABLES
    heap,       \* buffers ever allocated: <<[data, use_count, T], ...>>, index = address
    arrs,       \* the NDArray handles of the program, by name; arrs.hull is the
                \* hull last computed, also when it was minAreaRectangle's local
    count,      \* the count argument of the last call of a geometry function
    rect,       \* the RotatedRectangle returned by minAreaRectangle
    pc,         \* position of the driver
    ndebug,     \* the build: TRUE when NDEBUG is defined and assert() expands to nothing
    call,       \* the last call of the array drivers, with its arguments
    origin      \* history: for each handle of the handle driver, the factory or
                \* Copy() call its value descends from (0 for none)

vars == <<heap, arrs, count, rect, pc, ndebug, call, origin>>

Abs(x) == IF x < 0 THEN -x ELSE x

(***************************************************************************)
(* ND::NDArray                                                             *)
(***************************************************************************)

\* A handle before construction (m_owned_data and m_data null, m_size 0).
NullArray ==
    [owned |-> 0, data |-> 0, off |-> 0, shape |-> <<>>, strides |-> <<>>, size |-> 0]

RECURSIVE Product(_)
Product(shape) ==
    IF shape = <<>> THEN 1 ELSE Head(shape) * Product(Tail(shape))

RECURSIVE StridesLoopAfter(_, _, _, _)
\* Mutant: the stride is stored after the size is multiplied.
StridesLoopAfter(shape, i, strides, size) ==
    IF i = 0
    THEN [strides |-> strides, size |-> size]
    ELSE StridesLoopAfter(shape, i - 1, [strides EXCEPT ![i] = size * shape[i]],
                          size * shape[i])

\* The loop of the non-owning constructor: for (i = NDim; i > 0; --i)
\* { m_strides[i-1] = m_size; m_size *= shape[i-1]; }   (sequences are 1-based)
RECURSIVE StridesLoop(_, _, _, _)
StridesLoop(shape, i, strides, size) ==
    IF i = 0
    THEN [strides |-> strides, size |-> size]
    ELSE StridesLoop(shape, i - 1, [strides EXCEPT ![i] = size], size * shape[i])

\* NDArray(T *data, Shape shape): data is the buffer, off the element offset of
\* the pointer inside it.
ViewCtor(data, off, shape) ==
    LET r == StridesLoop(shape, Len(shape), [k \in 1..Len(shape) |-> 0], 1)
    IN  [owned |-> 0, data |-> data, off |-> off, shape |-> shape,
         strides |-> r.strides, size |-> r.size]

\* NDArray(std::shared_ptr<T[]> owned_data, Shape shape)
OwningCtor(buf, shape) ==
    [ViewCtor(buf, 0, shape) EXCEPT !.owned = buf]

\* The element type T of the array a handle points into.
ElemType(h, arr) == h[arr.data].T

\* Empty(shape): std::make_shared<T[]>(n) value-initialises the n elements.
Empty(h, T, shape) ==
    [heap |-> Append(h, [data |-> [k \in 1..Product(shape) |-> 0], use_count |-> 1,
                         T |-> T]),
     arr  |-> OwningCtor(Len(h) + 1, shape)]

\* A handle goes out of scope: the shared_ptr drops one reference.
Release(h, arr) ==
    IF arr.owned = 0 THEN h
    ELSE [h EXCEPT ![arr.owned].use_count = @ - 1]

\* A handle is copied: the shared_ptr gains one reference.
Acquire(h, arr) ==
    IF arr.owned = 0 THEN h
    ELSE [h EXCEPT ![arr.owned].use_count = @ + 1]

\* dst = src (copy constructor and copy assignment, both defaulted): every
\* member is copied; the buffer dst owned loses a reference.
CopyAssign(h, dst, src) ==
    [heap |-> Release(Acquire(h, src), dst), dst |-> src, src |-> src]

\* Mutant: the move takes a new reference instead of the source's.
MoveAssignAcquire(h, dst, src) ==
    [heap |-> Release(Acquire(h, src), dst), dst |-> src,
     src |-> [src EXCEPT !.owned = 0]]

\* dst = std::move(src) (move constructor and move assignment, both defaulted):
\* the shared_ptr is moved and the source's is left null; m_data, m_shape,
\* m_strides and m_size are plain members and are copied.
MoveAssign(h, dst, src) ==
    [heap |-> Release(h, dst), dst |-> src, src |-> [src EXCEPT !.owned = 0]]

ValidIndex(arr, idx) ==
    \A k \in 1..Len(arr.shape) : ~(idx[k] < 0) /\ ~(idx[k] >= arr.shape[k])

RECURSIVE RavelLoop(_, _, _, _)
RavelLoop(arr, idx, i, offset) ==
    IF i > Len(arr.shape) THEN offset
    ELSE RavelLoop(arr, idx, i + 1, offset + idx[i] * arr.strides[i])

Ravel(arr, idx) == RavelLoop(arr, idx, 1, 0)

\* operator[](idx) and operator()(idx...), read and write
ReadFlat(h, arr, i) == h[arr.data].data[arr.off + i + 1]
WriteFlat(h, arr, i, v) == [h EXCEPT ![arr.data].data[arr.off + i + 1] = v]
ReadAt(h, arr, idx) == ReadFlat(h, arr, Ravel(arr, idx))
WriteAt(h, arr, idx, v) == WriteFlat(h, arr, Ravel(arr, idx), v)

RECURSIVE FillLoop(_, _, _, _)
\* std::fill(arr.m_data, arr.m_data + arr.m_size, value)
FillLoop(h, arr, value, i) ==
    IF ~(i < arr.size) THEN h
    ELSE FillLoop(WriteFlat(h, arr, i, value), arr, value, i + 1)

Full(h, T, shape, value) ==
    LET e == Empty(h, T, shape)
    IN  [heap |-> FillLoop(e.heap, e.arr, value, 0), arr |-> e.arr]

Zeros(h, T, shape) == Full(h, T, shape, 0)
Ones(h, T, shape) == Full(h, T, shape, 1)

RECURSIVE CopyLoop(_, _, _, _)
\* std::copy(m_data, m_data + m_size, arr.m_data)
CopyLoop(h, from, to, i) ==
    IF ~(i < from.size) THEN h
    ELSE CopyLoop(WriteFlat(h, to, i, ReadFlat(h, from, i)), from, to, i + 1)

\* Copy(): Empty(m_shape), then the elements are copied.
Copy(h, this) ==
    LET e == Empty(h, ElemType(h, this), this.shape)
    IN  [heap |-> CopyLoop(e.heap, this, e.arr, 0), arr |-> e.arr]

\* The arithmetic of the element type on two values (integer division
\* truncates toward zero).
ElemOp(op, x, y) ==
    CASE op = "+" -> x + y
      [] op = "-" -> x - y
      [] op = "*" -> x * y
      [] op = "/" -> IF (x < 0) = (y < 0) THEN Abs(x) \div Abs(y)
                     ELSE -(Abs(x) \div Abs(y))

RECURSIVE OperatorLoop(_, _, _, _, _, _)
\* for (i = 0; i < a.size(); ++i) result[i] = a[i] OP b[i];
OperatorLoop(h, op, a, b, result, i) ==
    IF ~(i < a.size) THEN h
    ELSE OperatorLoop(WriteFlat(h, result, i, ElemOp(op, ReadFlat(h, a, i), ReadFlat(h, b, i))),
                      op, a, b, result, i + 1)

\* Mutant: the result is written over the left operand.
OperatorArrInPlace(h, op, a, b) ==
    [heap |-> OperatorLoop(h, op, a, b, a, 0), arr |-> a]

\* decltype(std::declval<T>() OP std::declval<U>()): the usual arithmetic
\* conversions on the three element types
ResultType(T, U) ==
    IF T = "double" \/ U = "double" THEN "double"
    ELSE IF T = "unsigned" \/ U = "unsigned" THEN "unsigned"
    ELSE "int"

\* operator+ - * / (array, array), after the shape assertion.
OperatorArr(h, op, a, b) ==
    LET e == Empty(h, ResultType(ElemType(h, a), ElemType(h, b)), a.shape)
    IN  [heap |-> OperatorLoop(e.heap, op, a, b, e.arr, 0), arr |-> e.arr]

\* The loop of an operator reads b[i] for i < a.size(); reading past b's
\* elements, and an integer division by zero, are undefined behaviour.
OperatorUndefined(h, op, a, b) ==
    \/ a.size > b.size
    \/ /\ op = "/"
       /\ \E i \in 0..(a.size - 1) : ReadFlat(h, b, i) = 0

\* A call of operator+ - * / (array, array) in build nd: status "assert" when
\* assert(a.shape() == b.shape()) fails, "ub" when the behaviour is undefined.
ArrayOperator(h, nd, op, a, b) ==
    IF ~nd /\ a.shape # b.shape
    THEN [status |-> "assert", heap |-> h, arr |-> NullArray]
    ELSE IF OperatorUndefined(h, op, a, b)
    THEN [status |-> "ub", heap |-> h, arr |-> NullArray]
    ELSE LET r == OperatorArr(h, op, a, b)
         IN  [status |-> "done", heap |-> r.heap, arr |-> r.arr]

(***************************************************************************)
(* Geometry                                                                *)
(***************************************************************************)

\* A double of the cross product is held as c2*W*W + c1*W + c0 with W = 2^32
\* and small integers c2, c1, c0.
\* static_cast<double>(v) for v of type T: an unsigned residue v < 0 is the
\* value W + v, and every value of the three types below 2^53 converts exactly.
ToDouble(T, v) ==
    IF T = "unsigned" /\ v < 0 THEN [c2 |-> 0, c1 |-> 1, c0 |-> v]
    ELSE [c2 |-> 0, c1 |-> 0, c0 |-> v]

\* x * y of two converted elements.  A product near W*W lies in [2^63, 2^64),
\* where doubles are 2^11 apart: W*W + c1*W is a double and the term c0, of
\* magnitude below 2^10, is rounded away.  Every other product is below 2^53
\* and exact.
DoubleTimes(x, y) ==
    LET c2 == x.c1 * y.c1
    IN  [c2 |-> c2, c1 |-> x.c1 * y.c0 + x.c0 * y.c1,
         c0 |-> IF c2 # 0 THEN 0 ELSE x.c0 * y.c0]

\* x - y of two such products: exact when the leading terms cancel, and of
\* the sign of the leading term otherwise.
DoubleMinus(x, y) == [c2 |-> x.c2 - y.c2, c1 |-> x.c1 - y.c1, c0 |-> x.c0 - y.c0]

\* -1, 0 or 1 as the double is negative, zero or positive
DoubleSign(x) ==
    LET lead == IF x.c2 # 0 THEN x.c2 ELSE IF x.c1 # 0 THEN x.c1 ELSE x.c0
    IN  IF lead < 0 THEN -1 ELSE IF lead > 0 THEN 1 ELSE 0

\* cross(a, b) on two 2-vectors held in heap h, with U = double
cross(h, a, b) ==
    LET ax == ToDouble(ElemType(h, a), ReadFlat(h, a, 0))
        ay == ToDouble(ElemType(h, a), ReadFlat(h, a, 1))
        bx == ToDouble(ElemType(h, b), ReadFlat(h, b, 0))
        by == ToDouble(ElemType(h, b), ReadFlat(h, b, 1))
    IN  DoubleMinus(DoubleTimes(ax, by), DoubleTimes(ay, bx))

\* NDArray<const T, 1>(&points(idx, 0), {2}): the view of one row
RowView(points, idx) ==
    ViewCtor(points.data, points.off + Ravel(points, <<idx, 0>>), <<2>>)

\* Mutant: the count argument is ignored.
EffectiveCountAll(points, cnt) == points.shape[1]

EffectiveCount(points, cnt) ==
    IF cnt < 0 THEN points.shape[1] ELSE cnt

\* The comparison functions of argSortPoints.
SortComp(h, points, order, i, j) ==
    IF order = "Ascending"
    THEN \/ ReadAt(h, points, <<i, 0>>) < ReadAt(h, points, <<j, 0>>)
         \/ /\ ReadAt(h, points, <<i, 0>>) <= ReadAt(h, points, <<j, 0>>)
            /\ ReadAt(h, points, <<i, 1>>) < ReadAt(h, points, <<j, 1>>)
    ELSE \/ ReadAt(h, points, <<i, 0>>) > ReadAt(h, points, <<j, 0>>)
         \/ /\ ReadAt(h, points, <<i, 0>>) >= ReadAt(h, points, <<j, 0>>)
            /\ ReadAt(h, points, <<i, 1>>) > ReadAt(h, points, <<j, 1>>)

\* std::sort is not stable: every ordering of the indices in which no later
\* element compares before an earlier one is a possible result.
RECURSIVE SortedSeqs(_, _, _, _)
SortedSeqs(h, points, order, S) ==
    IF S = {} THEN {<<>>}
    ELSE UNION { { <<m>> \o r : r \in SortedSeqs(h, points, order, S \ {m}) } :
                 m \in { x \in S : \A o \in S : ~SortComp(h, points, order, o, x) } }

argSortPoints(h, points, order, cnt) ==
    SortedSeqs(h, points, order, 0..(EffectiveCount(points, cnt) - 1))

\* The turn test of both hull loops:
\* cross(hull[size-1] - hull[size-2], p - hull[size-2]).  The two differences
\* are temporaries; they live in a scratch copy of the heap.
TurnTest(h, hull, p) ==
    LET d1 == OperatorArr(h, "-", hull[Len(hull)], hull[Len(hull) - 1])
        d2 == OperatorArr(d1.heap, "-", p, hull[Len(hull) - 1])
    IN  cross(d2.heap, d1.arr, d2.arr)

pop_back(hull) == SubSeq(hull, 1, Len(hull) - 1)

\* Mutant: the lower pass never pops.
LowerPopNever(h, hull, p) == hull

RECURSIVE LowerPopStrict(_, _, _)
\* Mutant: the lower pass pops on a right turn only (cross < 0).
LowerPopStrict(h, hull, p) ==
    IF Len(hull) >= 2 /\ DoubleSign(TurnTest(h, hull, p)) < 0
    THEN LowerPopStrict(h, pop_back(hull), p)
    ELSE hull

RECURSIVE LowerPop(_, _, _)
\* while (hull.size() >= 2 && cross(...) <= 0) hull.pop_back();
LowerPop(h, hull, p) ==
    IF Len(hull) >= 2 /\ DoubleSign(TurnTest(h, hull, p)) <= 0
    THEN LowerPop(h, pop_back(hull), p)
    ELSE hull

RECURSIVE LowerLoop(_, _, _, _, _)
\* for (const auto &idx : sortedIdx) { p = view of row idx; pop; push }
LowerLoop(h, points, sortedIdx, k, hull) ==
    IF k > Len(sortedIdx) THEN hull
    ELSE LET p == RowView(points, sortedIdx[k])
         IN  LowerLoop(h, points, sortedIdx, k + 1, Append(LowerPop(h, hull, p), p))

\* Mutant: the upper pass never pops.
UpperPopNever(h, hull, p, lowerSize) == hull

RECURSIVE UpperPopToTwo(_, _, _, _)
\* Mutant: the upper pass pops down to two entries, as the lower pass does.
UpperPopToTwo(h, hull, p, lowerSize) ==
    IF Len(hull) >= 2 /\ DoubleSign(TurnTest(h, hull, p)) <= 0
    THEN UpperPopToTwo(h, pop_back(hull), p, lowerSize)
    ELSE hull

RECURSIVE UpperPop(_, _, _, _)
\* while (hull.size() > lowerSize && cross(...) <= 0) hull.pop_back();
UpperPop(h, hull, p, lowerSize) ==
    IF Len(hull) > lowerSize /\ DoubleSign(TurnTest(h, hull, p)) <= 0
    THEN UpperPop(h, pop_back(hull), p, lowerSize)
    ELSE hull

RECURSIVE UpperLoop(_, _, _, _, _, _)
\* for (int i = N - 2; i >= 0; --i) { p = view of row sortedIdx[i]; pop; push }
UpperLoop(h, points, sortedIdx, i, hull, lowerSize) ==
    IF ~(i >= 0) THEN hull
    ELSE LET p == RowView(points, sortedIdx[i + 1])
         IN  UpperLoop(h, points, sortedIdx, i - 1,
                       Append(UpperPop(h, hull, p, lowerSize), p), lowerSize)

RECURSIVE TrivialLoopShort(_, _, _, _, _)
\* Mutant: the copy loop stops one row early.
TrivialLoopShort(h, trivialHull, points, N, i) ==
    IF ~(i < N - 1) THEN h
    ELSE LET h0 == WriteAt(h, trivialHull, <<i, 0>>, ReadAt(h, points, <<i, 0>>))
             h1 == WriteAt(h0, trivialHull, <<i, 1>>, ReadAt(h0, points, <<i, 1>>))
         IN  TrivialLoopShort(h1, trivialHull, points, N, i + 1)

RECURSIVE TrivialLoop(_, _, _, _, _)
\* for (i = 0; i < N; ++i) { trivialHull(i,0) = points(i,0); trivialHull(i,1) = points(i,1); }
TrivialLoop(h, trivialHull, points, N, i) ==
    IF ~(i < N) THEN h
    ELSE LET h0 == WriteAt(h, trivialHull, <<i, 0>>, ReadAt(h, points, <<i, 0>>))
             h1 == WriteAt(h0, trivialHull, <<i, 1>>, ReadAt(h0, points, <<i, 1>>))
         IN  TrivialLoop(h1, trivialHull, points, N, i + 1)

RECURSIVE HullCopyLoop(_, _, _, _)
\* for (i = 0; i < hull.size(); ++i) { hullPoints(i,0) = hull[i][0]; hullPoints(i,1) = hull[i][1]; }
HullCopyLoop(h, hullPoints, hull, i) ==
    IF ~(i < Len(hull)) THEN h
    ELSE LET h0 == WriteAt(h, hullPoints, <<i, 0>>, ReadFlat(h, hull[i + 1], 0))
             h1 == WriteAt(h0, hullPoints, <<i, 1>>, ReadFlat(h0, hull[i + 1], 1))
         IN  HullCopyLoop(h1, hullPoints, hull, i + 1)

\* Mutant: the repeated first point is not removed from the stack.
MonotoneChainKeepLast(h, points, N, sortedIdx) ==
    LET lower == LowerLoop(h, points, sortedIdx, 1, <<>>)
        lowerSize == Len(lower)
        hull == UpperLoop(h, points, sortedIdx, N - 2, lower, lowerSize)
        e == Empty(h, ElemType(h, points), <<Len(hull), 2>>)
    IN  [heap |-> HullCopyLoop(e.heap, e.arr, hull, 0), arr |-> e.arr]

\* The body of computeConvexHull for N >= 3, for one result of the sort.
MonotoneChain(h, points, N, sortedIdx) ==
    LET lower == LowerLoop(h, points, sortedIdx, 1, <<>>)
        lowerSize == Len(lower)
        both == UpperLoop(h, points, sortedIdx, N - 2, lower, lowerSize)
        hull == pop_back(both)
        e == Empty(h, ElemType(h, points), <<Len(hull), 2>>)
    IN  [heap |-> HullCopyLoop(e.heap, e.arr, hull, 0), arr |-> e.arr]

\* computeConvexHull(points, count): the set of its possible results, each the
\* heap after the call and the returned handle.
computeConvexHull(h, points, cnt) ==
    LET N == EffectiveCount(points, cnt)
    IN  IF N < 3
        THEN LET e == Empty(h, ElemType(h, points), <<N, 2>>)
             IN  { [heap |-> TrivialLoop(e.heap, e.arr, points, N, 0), arr |-> e.arr] }
        ELSE { MonotoneChain(h, points, N, s) :
               s \in argSortPoints(h, points, "Ascending", cnt) }

(***************************************************************************)
(* minAreaRectangle.  For an edge of length L (L*L = len2, an integer) the *)
(* unit vectors are ux = edge/L and uy = (-ux[1], ux[0]).  The model holds *)
(* L*ux and L*uy, which are integer vectors, so every projection is held   *)
(* multiplied by L: width = size[1]/L, height = size[2]/L,                 *)
(* area = size[1]*size[2]/len2, center = center/center_den.                *)
(* The angle atan2(ux[1], ux[0]) is held as the direction dir = L*ux.      *)
(***************************************************************************)

\* The doubles +infinity, -infinity and the finite ones.
PosInf == [inf |-> 1, v |-> 0]
NegInf == [inf |-> -1, v |-> 0]
Fin(x) == [inf |-> 0, v |-> x]
ExtLess(a, b) == IF a.inf # b.inf THEN a.inf < b.inf ELSE a.inf = 0 /\ a.v < b.v
\* std::min(a, b) is (b < a) ? b : a ; std::max(a, b) is (a < b) ? b : a
ExtMin(a, b) == IF ExtLess(b, a) THEN b ELSE a
ExtMax(a, b) == IF ExtLess(a, b) THEN b ELSE a

\* RotatedRectangle(): center and size Zeros({2}), angle 0.0
RotatedRectangle ==
    [center |-> <<0, 0>>, center_den |-> 1, size |-> <<0, 0>>, len2 |-> 1, dir |-> <<1, 0>>]

\* NDArray(std::initializer_list<T> init), NDim == 1
RECURSIVE InitListCopy(_, _, _, _)
InitListCopy(h, arr, init, i) ==
    IF i > Len(init) THEN h
    ELSE InitListCopy(WriteFlat(h, arr, i - 1, init[i]), arr, init, i + 1)

InitList(h, init) ==
    LET e == Empty(h, "double", <<Len(init)>>)
    IN  [heap |-> InitListCopy(e.heap, e.arr, init, 1), arr |-> e.arr]

RECURSIVE DotLoop(_, _, _, _, _)
\* for (i = 0; i < a.shape()[0]; ++i) result += a[i] * b[i];
DotLoop(h, a, b, i, result) ==
    IF ~(i < a.shape[1]) THEN result
    ELSE DotLoop(h, a, b, i + 1, result + ReadFlat(h, a, i) * ReadFlat(h, b, i))

dot(h, a, b) == DotLoop(h, a, b, 0, 0)

RECURSIVE ProjLoop(_, _, _, _, _, _, _)
\* for (j = 0; j < n; ++j) { projX = dot(p, ux); projY = dot(p, uy); min/max }
ProjLoop(h, hull, n, ux, uy, j, box) ==
    IF ~(j < n) THEN box
    ELSE LET p == RowView(hull, j)
             projX == Fin(dot(h, p, ux))
             projY == Fin(dot(h, p, uy))
         IN  ProjLoop(h, hull, n, ux, uy, j + 1,
                      [minX |-> ExtMin(box.minX, projX), maxX |-> ExtMax(box.maxX, projX),
                       minY |-> ExtMin(box.minY, projY), maxY |-> ExtMax(box.maxY, projY)])

\* Mutant: area <= minArea, the last of equal areas wins.
AreaLessOrEqual(area, minArea) ==
    IF minArea.inf = 1 THEN TRUE
    ELSE area.num * minArea.den <= minArea.num * area.den

\* if (area < minArea), minArea being +infinity or the rational num/den
AreaLess(area, minArea) ==
    IF minArea.inf = 1 THEN TRUE
    ELSE area.num * minArea.den < minArea.num * area.den

\* One iteration of the loop over the hull edges; st is [minArea, best].
\* minArea is +infinity or the rational num/den.
EdgeStep(h, hull, n, i, st) ==
    LET p0 == RowView(hull, i)
        p1 == RowView(hull, (i + 1) % n)
        edge == OperatorArr(h, "-", p1, p0)
        len2 == dot(edge.heap, edge.arr, edge.arr)
    IN  IF len2 <= 0 THEN st          \* edgeLength = sqrt(len2) <= 0.0: continue
        ELSE
        LET ux == edge                \* L * (edge / edgeLength)
            uy == InitList(ux.heap, << -ReadFlat(ux.heap, ux.arr, 1), ReadFlat(ux.heap, ux.arr, 0) >>)
            hh == uy.heap
            box == ProjLoop(hh, hull, n, ux.arr, uy.arr, 0,
                            [minX |-> PosInf, maxX |-> NegInf, minY |-> PosInf, maxY |-> NegInf])
            width == box.maxX.v - box.minX.v
            height == box.maxY.v - box.minY.v
            area == [inf |-> 0, num |-> width * height, den |-> len2]
            less == AreaLess(area, st.minArea)
            centerLocalX == box.minX.v + box.maxX.v     \* times 1/(2L)
            centerLocalY == box.minY.v + box.maxY.v
        IN  IF less
            THEN [minArea |-> area,
                  best |-> [center |-> << ReadFlat(hh, ux.arr, 0) * centerLocalX
                                            + ReadFlat(hh, uy.arr, 0) * centerLocalY,
                                          ReadFlat(hh, ux.arr, 1) * centerLocalX
                                            + ReadFlat(hh, uy.arr, 1) * centerLocalY >>,
                            center_den |-> 2 * len2,
                            size |-> <<width, height>>,
                            len2 |-> len2,
                            dir |-> <<ReadFlat(hh, ux.arr, 0), ReadFlat(hh, ux.arr, 1)>>]]
            ELSE st

RECURSIVE EdgeLoop(_, _, _, _, _)
\* for (i = 0; i < n; ++i)
EdgeLoop(h, hull, n, i, st) ==
    IF ~(i < n) THEN st
    ELSE EdgeLoop(h, hull, n, i + 1, EdgeStep(h, hull, n, i, st))

\* Mutant: the single point is not stored as the center.
SinglePointRectZero(h, hull) == RotatedRectangle

\* if (n == 1) { res.center[0] = hull(0, 0); res.center[1] = hull(0, 1); return res; }
SinglePointRect(h, hull) ==
    [RotatedRectangle EXCEPT
        !.center = <<ReadAt(h, hull, <<0, 0>>), ReadAt(h, hull, <<0, 1>>)>>]

\* The part of minAreaRectangle after the hull is computed.
RectOfHull(h, hull) ==
    LET n == hull.shape[1]
    IN  IF n = 0 THEN RotatedRectangle
        ELSE IF n = 1
        THEN SinglePointRect(h, hull)
        ELSE EdgeLoop(h, hull, n, 0,
                      [minArea |-> [inf |-> 1, num |-> 0, den |-> 1],
                       best |-> RotatedRectangle]).best

\* minAreaRectangle(points, count): the set of its possible results, each the
\* heap after the call, the rectangle, and the local array hull, which is
\* destroyed when the function returns.
minAreaRectangle(h, points, cnt) ==
    LET N == EffectiveCount(points, cnt)
    IN  { [heap |-> Release(r.heap, r.arr), rect |-> RectOfHull(r.heap, r.arr),
           hull |-> r.arr] :
          r \in computeConvexHull(h, points, N) }

(***************************************************************************)
(* The geometry driver: a point array, then either computeConvexHull and   *)
(* computeConvexHull of its result, or minAreaRectangle.                   *)
(***************************************************************************)

\* The point sets of the design's concrete scenarios: a square with an
\* interior point, two identical points, three collinear points, a square
\* rotated by 45 degrees.
ScenarioData ==
    { <<0, 0, 4, 0, 4, 4, 0, 4, 2, 2>>,
      <<1, 1, 1, 1>>,
      <<0, 0, 1, 0, 2, 0>>,
      <<1, 0, 0, 1, -1, 0, 0, -1>> }

PointData ==
    UNION { [1..(2 * M) -> 0..MaxCoord] : M \in 0..MaxPts } \cup ScenarioData

NoRect == [RotatedRectangle EXCEPT !.center_den = 0]

GeomInit ==
    \E data \in PointData :
        /\ heap = << [data |-> data, use_count |-> 1, T |-> "double"] >>
        /\ arrs = [points |-> OwningCtor(1, <<Len(data) \div 2, 2>>),
                   hull |-> NullArray, rehull |-> NullArray]
        /\ count = -1
        /\ rect = NoRect
        /\ pc = "start"
        /\ ndebug = FALSE   \* no assertion fails on these inputs: one build stands for both
        /\ call = "none"
        /\ origin = <<>>

\* The counts a caller may pass: negative for all rows, or at most the
\* number of rows (the functions assert N <= points.shape()[0]).
Counts(points) == -1..points.shape[1]

ConvexHull ==
    /\ pc = "start"
    /\ \E cnt \in Counts(arrs.points) :
          /\ count' = cnt
          /\ \E r \in computeConvexHull(heap, arrs.points, cnt) :
                /\ heap' = r.heap
                /\ arrs' = [arrs EXCEPT !.hull = r.arr]
    /\ pc' = "hull"
    /\ UNCHANGED <<rect, ndebug, call, origin>>

HullOfHull ==
    /\ pc = "hull"
    /\ \E r \in computeConvexHull(heap, arrs.hull, -1) :
          /\ heap' = r.heap
          /\ arrs' = [arrs EXCEPT !.rehull = r.arr]
    /\ pc' = "rehull"
    /\ UNCHANGED <<count, rect, ndebug, call, origin>>

MinAreaRect ==
    /\ pc = "start"
    /\ \E cnt \in Counts(arrs.points) :
          /\ count' = cnt
          /\ \E r \in minAreaRectangle(heap, arrs.points, cnt) :
                /\ heap' = r.heap
                /\ rect' = r.rect
                /\ arrs' = [arrs EXCEPT !.hull = r.hull]
    /\ pc' = "rect"
    /\ UNCHANGED <<ndebug, call, origin>>

GeomNext == ConvexHull \/ HullOfHull \/ MinAreaRect

GeomSpec == GeomInit /\ [][GeomNext]_vars

(***************************************************************************)
(* The element type driver: the same points stored as T (int or unsigned)  *)
(* and as double, computeConvexHull<T> on the first array and then         *)
(* computeConvexHull<double> on the second, with one count.                *)
(***************************************************************************)

IntegerTypes == {"int", "unsigned"}

TypeInit ==
    \E data \in UNION { [1..(2 * M) -> 0..MaxCoord] : M \in 0..MaxPts }, T \in IntegerTypes :
        /\ heap = << [data |-> data, use_count |-> 1, T |-> T],
                     [data |-> data, use_count |-> 1, T |-> "double"] >>
        /\ arrs = [points |-> OwningCtor(1, <<Len(data) \div 2, 2>>),
                   dpoints |-> OwningCtor(2, <<Len(data) \div 2, 2>>),
                   hull |-> NullArray, dhull |-> NullArray]
        /\ count = -1
        /\ rect = NoRect
        /\ pc = "start"
        /\ ndebug = FALSE
        /\ call = "none"
        /\ origin = <<>>

HullTyped ==
    /\ pc = "start"
    /\ \E cnt \in Counts(arrs.points) :
          /\ count' = cnt
          /\ \E r \in computeConvexHull(heap, arrs.points, cnt) :
                /\ heap' = r.heap
                /\ arrs' = [arrs EXCEPT !.hull = r.arr]
    /\ pc' = "typed"
    /\ UNCHANGED <<rect, ndebug, call, origin>>

HullDouble ==
    /\ pc = "typed"
    /\ \E r \in computeConvexHull(heap, arrs.dpoints, count) :
          /\ heap' = r.heap
          /\ arrs' = [arrs EXCEPT !.dhull = r.arr]
    /\ pc' = "both"
    /\ UNCHANGED <<count, rect, ndebug, call, origin>>

TypeNext == HullTyped \/ HullDouble

TypeSpec == TypeInit /\ [][TypeNext]_vars

(***************************************************************************)
(* The array operator driver: two operands a and b of NDArray<int, 2>, b   *)
(* possibly a shallow copy of a, then one call of a (array, array)         *)
(* operator whose result is r.                                             *)
(***************************************************************************)

ElemVals == {-2, 0, 3}
Ops == {"+", "-", "*", "/"}
OperandShapes == { <<n, 1>> : n \in 0..MaxLen } \cup { <<1, n>> : n \in 0..MaxLen }
Operands ==
    UNION { { [shape |-> sh, data |-> d] : d \in [1..(sh[1] * sh[2]) -> ElemVals] } :
            sh \in OperandShapes }

NDInit ==
    /\ \E x \in Operands :
          \/ \E y \in Operands :
                /\ heap = << [data |-> x.data, use_count |-> 1, T |-> "int"],
                             [data |-> y.data, use_count |-> 1, T |-> "int"] >>
                /\ arrs = [a |-> OwningCtor(1, x.shape), b |-> OwningCtor(2, y.shape),
                           r |-> NullArray]
          \/ /\ heap = << [data |-> x.data, use_count |-> 2, T |-> "int"] >>
             /\ arrs = [a |-> OwningCtor(1, x.shape), b |-> OwningCtor(1, x.shape),
                        r |-> NullArray]
    /\ ndebug \in BOOLEAN
    /\ pc = "run"
    /\ call = "none"
    /\ count = -1
    /\ rect = NoRect
    /\ origin = <<>>

\* r = a OP b
Operator(op) ==
    /\ pc = "run"
    /\ LET res == ArrayOperator(heap, ndebug, op, arrs.a, arrs.b)
       IN  /\ heap' = res.heap
           /\ arrs' = [arrs EXCEPT !.r = res.arr]
           /\ pc' = res.status
    /\ call' = op
    /\ UNCHANGED <<ndebug, count, rect, origin>>

NDNext == \E op \in Ops : Operator(op)

NDSpec == NDInit /\ [][NDNext]_vars

(***************************************************************************)
(* The handle driver: three handle variables x, y, z of NDArray<int, 1>,   *)
(* created by a factory, by copy or move from one another, by Copy(), or   *)
(* as a view of another handle's data(); elements written through them;    *)
(* handles going out of scope.                                             *)
(***************************************************************************)

Handles == {"x", "y", "z"}
WriteVal == 2
Lengths == {1, 2}

\* The buffer a handle points into is still allocated.
Live(h, arr) == arr.data # 0 /\ h[arr.data].use_count > 0

HandleInit ==
    /\ heap = <<>>
    /\ arrs = [t \in Handles |-> NullArray]
    /\ origin = [t \in Handles |-> 0]
    /\ pc = "run"
    /\ call = <<"none">>
    /\ ndebug = FALSE
    /\ count = -1
    /\ rect = NoRect

\* auto t = NDArray<int, 1>::Zeros({n});
Create(t, n) ==
    /\ pc = "run" /\ arrs[t] = NullArray /\ Len(heap) < MaxBufs
    /\ LET r == Zeros(heap, "int", <<n>>)
       IN  /\ heap' = r.heap
           /\ arrs' = [arrs EXCEPT ![t] = r.arr]
    /\ origin' = [origin EXCEPT ![t] = Len(heap) + 1]
    /\ call' = <<"handle">>
    /\ UNCHANGED <<pc, ndebug, count, rect>>

\* t = s;  (or auto t = s;)
ShallowCopy(t, s) ==
    /\ pc = "run" /\ t # s /\ arrs[s] # NullArray
    /\ LET r == CopyAssign(heap, arrs[t], arrs[s])
       IN  /\ heap' = r.heap
           /\ arrs' = [arrs EXCEPT ![t] = r.dst]
    /\ origin' = [origin EXCEPT ![t] = origin[s]]
    /\ call' = <<"handle">>
    /\ UNCHANGED <<pc, ndebug, count, rect>>

\* t = std::move(s);  (or auto t = std::move(s);)
Move(t, s) ==
    /\ pc = "run" /\ t # s /\ arrs[s] # NullArray
    /\ LET r == MoveAssign(heap, arrs[t], arrs[s])
       IN  /\ heap' = r.heap
           /\ arrs' = [arrs EXCEPT ![t] = r.dst, ![s] = r.src]
    /\ origin' = [origin EXCEPT ![t] = origin[s]]
    /\ call' = <<"handle">>
    /\ UNCHANGED <<pc, ndebug, count, rect>>

\* t = s.Copy();  Reading the elements of a released buffer is undefined: the
\* copy then holds any values, or the program stops.
DeepCopy(t, s) ==
    /\ pc = "run" /\ t # s /\ arrs[s] # NullArray /\ Len(heap) < MaxBufs
    /\ call' = <<"Copy", t, s>>
    /\ LET c == Copy(heap, arrs[s])
           r == CopyAssign(c.heap, arrs[t], c.arr)   \* the temporary is moved into t
       IN  \/ /\ Live(heap, arrs[s])
              /\ heap' = Release(r.heap, c.arr)
              /\ arrs' = [arrs EXCEPT ![t] = r.dst]
              /\ origin' = [origin EXCEPT ![t] = Len(heap) + 1]
              /\ UNCHANGED pc
           \/ /\ ~Live(heap, arrs[s])
              /\ \E d \in [1..arrs[s].size -> {0, WriteVal}] :
                    heap' = [Release(r.heap, c.arr) EXCEPT ![c.arr.data].data = d]
              /\ arrs' = [arrs EXCEPT ![t] = r.dst]
              /\ origin' = [origin EXCEPT ![t] = Len(heap) + 1]
              /\ UNCHANGED pc
           \/ /\ ~Live(heap, arrs[s])
              /\ pc' = "ub"
              /\ UNCHANGED <<heap, arrs, origin>>
    /\ UNCHANGED <<ndebug, count, rect>>

\* s(i) = WriteVal;  A store through a handle whose buffer was released is
\* undefined: the program stops, or the store lands in the released memory,
\* or in a buffer allocated later at the same address.
Write(s, i) ==
    /\ pc = "run" /\ arrs[s] # NullArray /\ ValidIndex(arrs[s], <<i>>)
    /\ call' = <<"Write", s, i>>
    /\ \/ /\ Live(heap, arrs[s])
          /\ heap' = WriteAt(heap, arrs[s], <<i>>, WriteVal)
          /\ UNCHANGED pc
       \/ /\ ~Live(heap, arrs[s])
          /\ heap' = WriteAt(heap, arrs[s], <<i>>, WriteVal)
          /\ UNCHANGED pc
       \/ /\ ~Live(heap, arrs[s])
          /\ \E k \in (arrs[s].data + 1)..Len(heap) :
                /\ heap[k].use_count > 0 /\ i < Len(heap[k].data)
                /\ heap' = [heap EXCEPT ![k].data[i + 1] = WriteVal]
          /\ UNCHANGED pc
       \/ /\ ~Live(heap, arrs[s])
          /\ pc' = "ub"
          /\ UNCHANGED heap
    /\ UNCHANGED <<arrs, origin, ndebug, count, rect>>

\* NDArray<int, 1> t(s.data(), s.shape());  a view of s's elements
View(t, s) ==
    /\ pc = "run" /\ t # s /\ arrs[t] = NullArray /\ arrs[s] # NullArray
    /\ arrs' = [arrs EXCEPT ![t] = ViewCtor(arrs[s].data, arrs[s].off, arrs[s].shape)]
    /\ origin' = [origin EXCEPT ![t] = origin[s]]
    /\ call' = <<"handle">>
    /\ UNCHANGED <<heap, pc, ndebug, count, rect>>

\* t goes out of scope
Destroy(t) ==
    /\ pc = "run" /\ arrs[t] # NullArray
    /\ heap' = Release(heap, arrs[t])
    /\ arrs' = [arrs EXCEPT ![t] = NullArray]
    /\ origin' = [origin EXCEPT ![t] = 0]
    /\ call' = <<"handle">>
    /\ UNCHANGED <<pc, ndebug, count, rect>>

\* Handle copies, Copy() calls and element writes.
CopyNext ==
    \/ \E t \in Handles, n \in Lengths : Create(t, n)
    \/ \E t \in Handles, s \in Handles : ShallowCopy(t, s)
    \/ \E t \in Handles, s \in Handles : Move(t, s)
    \/ \E t \in Handles, s \in Handles : DeepCopy(t, s)
    \/ \E s \in Handles, i \in {0, 1} : Write(s, i)

CopySpec == HandleInit /\ [][CopyNext]_vars

\* The same with views and with handles going out of scope.
OwnNext ==
    \/ CopyNext
    \/ \E t \in Handles, s \in Handles : View(t, s)
    \/ \E t \in Handles : Destroy(t)

OwnSpec == HandleInit /\ [][OwnNext]_vars

(***************************************************************************)
(* The factory driver: one array r made by the view constructor or by a    *)
(* factory, for NDim = 1, 2, 3, then c = r.Copy().                         *)
(***************************************************************************)

NDims == {1, 2, 3}
Shapes == UNION { [1..d -> 0..MaxDim] : d \in NDims }

FactoryInit ==
    /\ heap = <<>>
    /\ arrs = [r |-> NullArray, c |-> NullArray]
    /\ pc = "start"
    /\ call = <<"none">>
    /\ origin = <<>>
    /\ ndebug = FALSE
    /\ count = -1
    /\ rect = NoRect

\* The array the step made becomes r.
Made(res, name) ==
    /\ heap' = res.heap
    /\ arrs' = [arrs EXCEPT !.r = res.arr]
    /\ pc' = "made"
    /\ call' = <<name>>
    /\ UNCHANGED <<origin, ndebug, count, rect>>

\* T data[n]; NDArray<T, NDim> r(data, shape);  the caller's memory is a
\* buffer no handle owns
MakeView(shape) ==
    /\ pc = "start"
    /\ Made([heap |-> Append(heap, [data |-> [k \in 1..Product(shape) |-> WriteVal],
                                     use_count |-> 1, T |-> "int"]),
             arr |-> ViewCtor(Len(heap) + 1, 0, shape)], "View")

MakeEmpty(shape) == pc = "start" /\ Made(Empty(heap, "int", shape), "Empty")
MakeFull(shape) == pc = "start" /\ Made(Full(heap, "int", shape, WriteVal), "Full")
MakeZeros(shape) == pc = "start" /\ Made(Zeros(heap, "int", shape), "Zeros")
MakeOnes(shape) == pc = "start" /\ Made(Ones(heap, "int", shape), "Ones")

\* auto c = r.Copy();
MakeCopy ==
    /\ pc = "made"
    /\ LET res == Copy(heap, arrs.r)
       IN  /\ heap' = res.heap
           /\ arrs' = [arrs EXCEPT !.c = res.arr]
    /\ pc' = "copied"
    /\ UNCHANGED <<call, origin, ndebug, count, rect>>

FactoryNext ==
    \/ \E shape \in Shapes : MakeView(shape)
    \/ \E shape \in Shapes : MakeEmpty(shape)
    \/ \E shape \in Shapes : MakeFull(shape)
    \/ \E shape \in Shapes : MakeZeros(shape)
    \/ \E shape \in Shapes : MakeOnes(shape)
    \/ MakeCopy

FactorySpec == FactoryInit /\ [][FactoryNext]_vars

(***************************************************************************)
(* Vocabulary of the properties.  These definitions read the state         *)
(* directly and do their own arithmetic.                                   *)
(***************************************************************************)

\* The rows of an (n, 2) array as a sequence of points, read from its buffer.
RowsOf(h, arr) ==
    [i \in 1..arr.shape[1] |->
        << h[arr.data].data[arr.off + 2 * (i - 1) + 1],
           h[arr.data].data[arr.off + 2 * (i - 1) + 2] >>]

P == RowsOf(heap, arrs.points)
\* the effective point count
EffN == IF count >= 0 THEN count ELSE Len(P)
FirstN == { P[j] : j \in 1..EffN }
\* the hull last computed (after minAreaRectangle: its local hull)
Hull == RowsOf(heap, arrs.hull)
ReHull == RowsOf(heap, arrs.rehull)
HullDone == pc \in {"hull", "rehull"}

\* (b - a) x (c - a)
Cross3(a, b, c) == (b[1] - a[1]) * (c[2] - a[2]) - (b[2] - a[2]) * (c[1] - a[1])
\* (b - a) x (c - b)
Turn3(a, b, c) == (b[1] - a[1]) * (c[2] - b[2]) - (b[2] - a[2]) * (c[1] - b[1])
Dot2(a, b) == a[1] * b[1] + a[2] * b[2]
Perp(e) == << -e[2], e[1] >>
Cyc(seq, i) == seq[((i - 1) % Len(seq)) + 1]
SetMax(S) == CHOOSE x \in S : \A y \in S : y <= x
SetMin(S) == CHOOSE x \in S : \A y \in S : x <= y
Collinear(S) == \A a \in S, b \in S, c \in S : Cross3(a, b, c) = 0

\* The rectangle contains point p: p translated by -center and projected on
\* u = dir/|dir| and v = perp(dir)/|dir| has |x| <= width/2 and |y| <= height/2.
\* With center = rect.center/center_den, width = size[1]/|dir| and
\* |dir|^2 = len2 both sides are multiplied by 2 * center_den * |dir|.  On
\* integer coordinates a violation is off by at least 1/(2*center_den*|dir|),
\* far above the tolerance of 1e-6.
RectContains(r, p) ==
    LET t == << r.center_den * p[1] - r.center[1], r.center_den * p[2] - r.center[2] >>
    IN  /\ 2 * Abs(Dot2(t, r.dir)) <= r.size[1] * r.center_den
        /\ 2 * Abs(Dot2(t, Perp(r.dir))) <= r.size[2] * r.center_den

(***************************************************************************)
(* Properties                                                              *)
(***************************************************************************)

\* C1: the rectangle returned by minAreaRectangle contains every one of the
\* N input points, also when points repeat or all coincide.
C1_RectContainsAllPoints ==
    pc = "rect" => \A p \in FirstN : RectContains(rect, p)

\* C2: every row of computeConvexHull(P, count) equals one of the first N
\* rows of P.
C2_HullSubset ==
    HullDone =>
        LET H == Hull
            F == FirstN
        IN  \A i \in 1..Len(H) : H[i] \in F

\* C2 witness: a hull of N >= 3 points was computed with a count that leaves
\* out a row whose point is none of the first N.
C2_Witness ==
    /\ pc = "hull" /\ count >= 3 /\ count < Len(P) /\ Len(Hull) >= 3
    /\ \E j \in (count + 1)..Len(P) : P[j] \notin FirstN

\* C3: every input point lies on or to the left of every hull edge.
C3_HullContainsPoints ==
    HullDone =>
        LET H == Hull
            F == FirstN
        IN  \A j \in 1..Len(H) : \A p \in F :
                Cross3(H[j], Cyc(H, j + 1), p) >= 0

\* C3 witness: a proper hull that leaves out an input point strictly inside it.
C3_Witness ==
    /\ pc = "hull" /\ Len(Hull) >= 3
    /\ \E p \in FirstN :
          \A j \in 1..Len(Hull) : Cross3(Hull[j], Cyc(Hull, j + 1), p) > 0

\* C4: a hull of n >= 3 rows is in counter-clockwise order, wrap-around
\* triples included.
C4_HullCounterClockwise ==
    HullDone =>
        LET H == Hull
        IN  Len(H) >= 3 =>
                \A i \in 1..Len(H) :
                    Turn3(Cyc(H, i), Cyc(H, i + 1), Cyc(H, i + 2)) >= 0

\* C4 witness: a hull of four rows came out of the monotone chain.
C4_Witness ==
    pc = "hull" /\ Len(Hull) >= 4 /\ EffN >= 5

\* C5: with N < 3 computeConvexHull returns the first N rows, in order, in a
\* buffer that did not exist before the call, and changes no existing buffer
\* and not the input handle.
C5_TrivialHull ==
    [][ (pc = "start" /\ pc' = "hull" /\ EffN' < 3) =>
            /\ RowsOf(heap', arrs'.hull) = [i \in 1..EffN' |-> P[i]]
            /\ arrs'.hull.owned = Len(heap) + 1
            /\ arrs'.hull.data = arrs'.hull.owned
            /\ arrs'.hull.off = 0
            /\ arrs'.hull.data # arrs.points.data
            /\ Len(heap') = Len(heap) + 1
            /\ \A b \in 1..Len(heap) : heap'[b] = heap[b]
            /\ arrs'.points = arrs.points ]_vars

\* C5 witness: the count cuts a longer array down to two rows, which hold
\* the same point, and the hull has been returned.
C5_Witness ==
    pc = "hull" /\ count = 2 /\ Len(P) >= 3 /\ P[1] = P[2] /\ Len(Hull) = 2

\* C6: the hull of the hull is the hull, up to a rotation of the rows.
C6_Idempotent ==
    pc = "rehull" =>
        LET H == Hull
            R == ReHull
        IN  /\ Len(R) = Len(H)
            /\ \E k \in 0..Len(H) :
                  \A i \in 1..Len(H) : R[i] = Cyc(H, i + k)

\* C6 witness: the second hull was computed from a proper hull that had
\* dropped input points.
C6_Witness ==
    pc = "rehull" /\ Len(Hull) >= 3 /\ EffN > Len(Hull)

LexLess(a, b) == a[1] < b[1] \/ (a[1] = b[1] /\ a[2] < b[2])
LexMin(S) == CHOOSE a \in S : \A b \in S : ~LexLess(b, a)
LexMax(S) == CHOOSE a \in S : \A b \in S : ~LexLess(a, b)

\* C7: for N >= 3, a hull of n >= 3 rows turns strictly left at every row
\* (cyclically) and repeats no point; an all-collinear input loses its middle
\* points: the hull is its two extreme points, fewer than 3 rows.
C7_StrictlyConvex ==
    (HullDone /\ EffN >= 3) =>
        LET H == Hull
            F == FirstN
        IN  /\ Len(H) >= 3 =>
                  /\ \A i \in 1..Len(H) :
                        Turn3(Cyc(H, i), Cyc(H, i + 1), Cyc(H, i + 2)) > 0
                  /\ \A i \in 1..Len(H), j \in 1..Len(H) : i # j => H[i] # H[j]
            /\ Collinear(F) =>
                  /\ Len(H) < 3
                  /\ H = << LexMin(F), LexMax(F) >>

\* C7 witness: three distinct collinear points went through the chain.
C7_Witness ==
    pc = "hull" /\ EffN >= 3 /\ Collinear(FirstN) /\ Cardinality(FirstN) >= 3

\* The bounding box of the hull rows in the frame of edge i, scaled by the
\* edge length.
EdgeVec(H, i) == << Cyc(H, i + 1)[1] - H[i][1], Cyc(H, i + 1)[2] - H[i][2] >>
Extent(H, d) ==
    LET S == { Dot2(H[j], d) : j \in 1..Len(H) } IN SetMax(S) - SetMin(S)
MidSum(H, d) ==
    LET S == { Dot2(H[j], d) : j \in 1..Len(H) } IN SetMax(S) + SetMin(S)
EdgeLen2(H, i) == Dot2(EdgeVec(H, i), EdgeVec(H, i))
NonZeroEdges(H) == { i \in 1..Len(H) : EdgeLen2(H, i) > 0 }
\* the area of the box of edge i, times the squared length of edge i
BoxArea(H, i) == Extent(H, EdgeVec(H, i)) * Extent(H, Perp(EdgeVec(H, i)))
\* the non-zero edge of least box area that comes first in hull edge order
FirstBestEdge(H) ==
    LET E == NonZeroEdges(H)
        A == [i \in E |-> BoxArea(H, i)]
        L == [i \in E |-> EdgeLen2(H, i)]
    IN  SetMin({ i \in E : \A k \in E : A[i] * L[k] <= A[k] * L[i] })

SquareScenario == << <<0, 0>>, <<4, 0>>, <<4, 4>>, <<0, 4>>, <<2, 2>> >>

C9_DegenerateRect ==
    pc = "rect" =>
        LET H == Hull
        IN  /\ Len(H) = 0 =>
                  /\ rect.center = <<0, 0>> /\ rect.center_den = 1
                  /\ rect.size = <<0, 0>>
                  /\ rect.dir[2] = 0 /\ rect.dir[1] > 0
            /\ Len(H) = 1 =>
                  /\ rect.center = H[1] /\ rect.center_den = 1
                  /\ rect.size = <<0, 0>>
                  /\ rect.dir[2] = 0 /\ rect.dir[1] > 0

\* C9 witness: the rectangle of a single point away from the origin.
C9_Witness ==
    pc = "rect" /\ Len(Hull) = 1 /\ Hull[1] # <<0, 0>> /\ rect.center = Hull[1]

\* The element operation, stated on its own: the quotient q of x / y is the
\* integer with x = q*y + r, |r| < |y|, and r zero or of the sign of x.
Quotient(x, y) ==
    CHOOSE q \in -Abs(x)..Abs(x) :
        LET r == x - q * y
        IN  Abs(r) < Abs(y) /\ (r = 0 \/ (r < 0) = (x < 0))
Apply(op, x, y) ==
    IF op = "+" THEN x + y
    ELSE IF op = "-" THEN x - y
    ELSE IF op = "*" THEN x * y
    ELSE Quotient(x, y)

\* The call returned a new owned array of a's shape holding a[i] OP b[i],
\* and changed neither operand nor any buffer that existed.
OperatorResultOk ==
    /\ pc' = "done"
    /\ arrs'.r.owned = Len(heap) + 1
    /\ arrs'.r.data = arrs'.r.owned /\ arrs'.r.off = 0
    /\ Len(heap') = Len(heap) + 1
    /\ heap'[arrs'.r.owned].use_count = 1
    /\ arrs'.r.shape = arrs.a.shape
    /\ arrs'.r.size = arrs.a.size
    /\ Len(heap'[arrs'.r.data].data) = arrs.a.size
    /\ \A i \in 1..arrs.a.size :
          heap'[arrs'.r.data].data[i] =
              Apply(call', heap[arrs.a.data].data[i], heap[arrs.b.data].data[i])
    /\ \A k \in 1..Len(heap) : heap'[k] = heap[k]
    /\ arrs'.a = arrs.a /\ arrs'.b = arrs.b

\* The call stopped at the shape assertion: nothing allocated, nothing computed.
OperatorCaught ==
    pc' = "assert" /\ heap' = heap /\ arrs' = arrs

\* C10 as stated: operands of one shape give a new array of a[i] OP b[i] and
\* are left unchanged; operands of different shapes are caught by the shape
\* assertion before any element is computed.
C10_OperatorAsStated ==
    [][ pc = "run" /\ pc' # "run" =>
            /\ (arrs.a.shape = arrs.b.shape /\ pc' # "ub") => OperatorResultOk
            /\ arrs.a.shape # arrs.b.shape => OperatorCaught ]_vars

\* C10 amended: the same, the shape assertion catching operands of different
\* shapes in the builds that keep assertions (NDEBUG not defined).
C10_OperatorElementwise ==
    [][ pc = "run" /\ pc' # "run" =>
            /\ (arrs.a.shape = arrs.b.shape /\ pc' # "ub") => OperatorResultOk
            /\ (arrs.a.shape # arrs.b.shape /\ ~ndebug) => OperatorCaught ]_vars

\* C10 witness: a quotient of two arrays of two elements was computed, the
\* operands being two handles of one buffer.
C10_Witness ==
    /\ pc = "done" /\ call = "/" /\ arrs.a.size = 2
    /\ arrs.a.data = arrs.b.data /\ arrs.r.data # arrs.a.data

\* The elements seen through a handle, in linear order.
Contents(h, arr) == [j \in 1..arr.size |-> h[arr.data].data[arr.off + j]]
Declared == { g \in Handles : arrs[g] # NullArray }
Owners(k) == { g \in Handles : arrs[g].owned = k }

\* The step was s(i) = WriteVal: the handles whose value descends from the
\* same factory or Copy() call as s's show the new element and are otherwise
\* unchanged, and the other handles show what they showed.
WriteVisibleToAliases ==
    LET s == call'[2]
        i == call'[3]
    IN  \A g \in Declared :
           Contents(heap', arrs'[g]) =
              IF origin[g] = origin[s]
              THEN [Contents(heap, arrs[g]) EXCEPT ![i + 1] = WriteVal]
              ELSE Contents(heap, arrs[g])

\* The step was t = s.Copy(): t has s's shape and values, is the one owner of
\* a buffer no other handle points into, and no other handle shows a change.
CopyIsIndependent ==
    LET t == call'[2]
        s == call'[3]
    IN  /\ pc' = "run"
        /\ arrs'[t].shape = arrs[s].shape
        /\ Contents(heap', arrs'[t]) = Contents(heap, arrs[s])
        /\ arrs'[t].owned = arrs'[t].data
        /\ heap'[arrs'[t].data].use_count = 1
        /\ \A g \in Handles \ {t} :
              /\ arrs'[g].data # arrs'[t].data
              /\ arrs'[g] = arrs[g]
              /\ g \in Declared => Contents(heap', arrs'[g]) = Contents(heap, arrs[g])

\* C11: after any sequence of handle copies, moves, Copy() calls and
\* writes, a write through a handle is visible through exactly the handles
\* related to it by copy, assignment or move, and Copy() returns an array of
\* the same shape and values that shares its buffer with no handle.
C11_AliasingAsStated ==
    [][ /\ call'[1] = "Write" => WriteVisibleToAliases
        /\ call'[1] = "Copy" => CopyIsIndependent ]_vars

\* The product of the extents of a shape and the weighted sum of an index,
\* each by its own recursion on the number of dimensions.
RECURSIVE ProdTo(_, _)
ProdTo(shape, k) == IF k = 0 THEN 1 ELSE ProdTo(shape, k - 1) * shape[k]
RECURSIVE SumTo(_, _, _)
SumTo(idx, strides, k) ==
    IF k = 0 THEN 0 ELSE SumTo(idx, strides, k - 1) + idx[k] * strides[k]

IndicesNear(arr) == [1..Len(arr.shape) -> -1..(MaxDim + 1)]
InRange(arr, idx) == \A k \in 1..Len(arr.shape) : 0 <= idx[k] /\ idx[k] < arr.shape[k]

RowMajor(arr) ==
    LET NDim == Len(arr.shape)
        valid == { idx \in IndicesNear(arr) : InRange(arr, idx) }
    IN  /\ arr.size = ProdTo(arr.shape, NDim)
        /\ Len(arr.strides) = NDim
        /\ arr.strides[NDim] = 1
        /\ \A i \in 1..(NDim - 1) : arr.strides[i] = arr.strides[i + 1] * arr.shape[i + 1]
        /\ \A idx \in IndicesNear(arr) : ValidIndex(arr, idx) <=> InRange(arr, idx)
        /\ \A idx \in valid : Ravel(arr, idx) = SumTo(idx, arr.strides, NDim)
        /\ { Ravel(arr, idx) : idx \in valid } = 0..(arr.size - 1)
        /\ \A idx \in valid, jdx \in valid : Ravel(arr, idx) = Ravel(arr, jdx) => idx = jdx

\* C12: every array made by the view constructor, Empty, Full, Zeros, Ones or
\* Copy has size = product(shape), stride[NDim-1] = 1 and
\* stride[i] = stride[i+1] * shape[i+1]; ValidIndex(idx) holds exactly for
\* 0 <= idx[k] < shape[k] in every dimension; Ravel(idx) = sum idx[k]*stride[k]
\* maps the valid indices one-to-one onto 0..size-1.
C12_RowMajorLayout ==
    /\ pc \in {"made", "copied"} => RowMajor(arrs.r)
    /\ pc = "copied" => RowMajor(arrs.c)

\* C12 witness: a three-dimensional view with unequal strides and its copy.
C12_Witness ==
    /\ pc = "copied" /\ call = <<"View">>
    /\ Len(arrs.r.shape) = 3 /\ arrs.r.size >= 4
    /\ arrs.r.strides[1] # arrs.r.strides[2] /\ arrs.r.strides[2] # arrs.r.strides[3]
    /\ arrs.c.owned # 0 /\ arrs.c.strides = arrs.r.strides

\* A buffer is released in this step, and the handle t stopped owning it.
ReleasedBy(k, t) ==
    /\ arrs[t].owned = k /\ arrs'[t].owned # k
    /\ \A g \in Handles : arrs'[g].owned # k

\* C13: over copies, assignments, moves and destructions of handles, a buffer
\* stays allocated exactly as long as some owning handle refers to it (its
\* reference count is the number of owning handles), and it is released in
\* the step that destroys or reassigns the last of them; views and moved-from
\* handles that point into it do not count.
C13_ReleasedWithLastOwner ==
    /\ [](\A k \in 1..Len(heap) : heap[k].use_count = Cardinality(Owners(k)))
    /\ [][ \A k \in 1..Len(heap) :
              (heap[k].use_count > 0 /\ heap'[k].use_count = 0) =>
                  /\ call' \in {<<"handle">>} \cup { <<"Copy", t, s>> : t \in Handles, s \in Handles }
                  /\ \E t \in Handles : ReleasedBy(k, t) ]_vars

\* C13 witness: a handle that owns nothing (a view or a moved-from handle)
\* still points into a released buffer, next to a buffer two handles own.
C13_Witness ==
    /\ pc = "run"
    /\ \E v \in Declared, g \in Declared, h \in Declared :
          /\ arrs[v].owned = 0 /\ heap[arrs[v].data].use_count = 0
          /\ g # h /\ arrs[g].owned # 0 /\ arrs[g].owned = arrs[h].owned
          /\ heap[arrs[g].owned].use_count = 2

\* The stack of computeConvexHull, for the sorted indices s of N points, when
\* the upper pass has handled s[N-2] down to s[k] (0-based), lower being the
\* stack the lower pass left; k = N - 1 gives lower itself.
RECURSIVE StackAfter(_, _, _, _)
StackAfter(s, N, k, lower) ==
    IF k > N - 2 THEN lower
    ELSE Append(UpperPop(heap, StackAfter(s, N, k + 1, lower),
                         RowView(arrs.points, s[k + 1]), Len(lower)),
                RowView(arrs.points, s[k + 1]))

\* C14: in computeConvexHull with N >= 3, lowerSize is at least 2, and in the
\* upper pass the stack never has fewer than lowerSize entries: after the pops
\* of every iteration its first lowerSize entries are those the lower pass
\* left, so the two top entries the turn test reads exist.
C14_UpperPassKeepsLower ==
    (pc = "hull" /\ EffN >= 3) =>
        \A s \in argSortPoints(heap, arrs.points, "Ascending", count) :
            LET lower == LowerLoop(heap, arrs.points, s, 1, <<>>)
                lowerSize == Len(lower)
            IN  /\ lowerSize >= 2
                /\ \A k \in 0..(EffN - 2) :
                      LET before == StackAfter(s, EffN, k + 1, lower)
                          popped == UpperPop(heap, before, RowView(arrs.points, s[k + 1]),
                                             lowerSize)
                      IN  /\ Len(before) >= lowerSize /\ Len(before) >= 2
                          /\ Len(popped) >= lowerSize
                          /\ SubSeq(popped, 1, lowerSize) = lower

\* C14 witness: a hull of N >= 4 points was computed in which an iteration
\* of the upper pass popped an entry of the stack.
C14_Witness ==
    /\ pc = "hull" /\ EffN >= 4
    /\ \E s \in argSortPoints(heap, arrs.points, "Ascending", count) :
          LET lower == LowerLoop(heap, arrs.points, s, 1, <<>>)
          IN  \E k \in 0..(EffN - 2) :
                 LET before == StackAfter(s, EffN, k + 1, lower)
                 IN  Len(UpperPop(heap, before, RowView(arrs.points, s[k + 1]),
                                  Len(lower))) < Len(before)

\* C15: the number n of rows computeConvexHull returns is at most N, and at
\* least 2 when N >= 3; so minAreaRectangle finds n = 0 only for N = 0 and
\* n = 1 only for N = 1.
C15_HullSize ==
    pc \in {"hull", "rect"} =>
        LET n == arrs.hull.shape[1]
        IN  /\ n <= EffN
            /\ EffN >= 3 => n >= 2
            /\ pc = "rect" => /\ n = 0 => EffN = 0
                              /\ n = 1 => EffN = 1

\* C15 witness: minAreaRectangle ran on N >= 3 identical points and its hull
\* has two rows.
C15_Witness ==
    /\ pc = "rect" /\ EffN >= 3 /\ arrs.hull.shape[1] = 2
    /\ Cardinality(FirstN) = 1

Sgn(x) == IF x < 0 THEN -1 ELSE IF x > 0 THEN 1 ELSE 0

\* C16: for an integer element type T, signed or unsigned, the turn test on
\* every triple (q, r, p) of input points has the sign of the exact cross
\* product (r.x-q.x)*(p.y-q.y) - (r.y-q.y)*(p.x-q.x), and the hull returned
\* has the coordinates of the hull of the same points stored as double.
C16_TurnTestExact ==
    /\ pc \in {"typed", "both"} =>
          \A i \in 1..Len(P), j \in 1..Len(P), k \in 1..Len(P) :
              DoubleSign(TurnTest(heap, << RowView(arrs.points, i - 1),
                                           RowView(arrs.points, j - 1) >>,
                                  RowView(arrs.points, k - 1)))
                  = Sgn(Cross3(P[i], P[j], P[k]))
    /\ pc = "both" => RowsOf(heap, arrs.hull) = RowsOf(heap, arrs.dhull)

====
